---- MODULE Spec2Model ----
(***************************************************************************)
(* Model of vive_ros2: the tracker producer loop                           *)
(* (src/src/vive_input.cpp, ViveInput::runVR), the shared-data mailbox it  *)
(* writes, and the stream client with its relative pose engine             *)
(* (src/src/vive_node.cpp, Client::start).                                 *)
(*                                                                         *)
(* Lengths are in centimetres and compared in exact arithmetic (float      *)
(* rounding is not modelled); durations are in milliseconds.  The pose     *)
(* fields of the client (coordinates and quaternion components) are        *)
(* fixed-point numbers in halves: the integer held is twice the value, so  *)
(* that unit quaternions with components of one half are exact.            *)
(***************************************************************************)
EXTENDS Integers, Sequences, FiniteSets, TLC

(* ------------------------------ bounds -------------------------------- *)

\* x coordinates of tracker positions range over 0..MaxX (cm)
MaxX == 3
\* device slots scanned per tick (OpenVR's k_unMaxTrackedDeviceCount)
NumDevices == 2
\* cap on the recorded age of prev_time (ms); larger ages are equal to it
MaxAge == 10
\* cap on the count of puts since the last take (history only)
MaxPuts == 2
\* x coordinates of the poses on the wire range over 0..MaxPoseX
MaxPoseX == 1
\* tokens the connection can hold in flight (one message is 3 tokens)
MaxWire == 3
\* connect attempts that may fail in a row
MaxFails == 2
\* cap on the count of sent and not yet processed messages (history only)
MaxOwed == 2
\* x and y coordinates of the poses given to calculateRelativePose on its
\* own range over 0..MaxRel
MaxRel == 1

(* ------------------------- program constants -------------------------- *)

\* (0.05 m)^2 in cm^2: the literal of the comparison at vive_input.cpp:106
Threshold2 == 25
\* sleep_for(milliseconds(5)) while a tracker is detected
ActiveSleep == 5
\* sleep_for(milliseconds(50)) while no tracker is detected
IdleSleep == 50
\* duration_cast<seconds>(currentTime - lastLogTime).count() >= 1
LogPeriod == 1000

(* ----------------------------- variables ------------------------------ *)

VARIABLES
  \* ---- producer process (vive_input.cpp) ----
  ppc,              \* position of main/runVR: construct, poll, scan, failed
  devIdx,           \* loop index i of the device scan
  trackerDetected,  \* bool trackerDetected
  local_data,       \* ViveInput::local_data
  first_run,        \* ViveInput::first_run
  prev_position,    \* ViveInput::prev_position
  prevAge,          \* steady_clock::now() - prev_time, capped at MaxAge
  sinceLog,         \* steady_clock::now() - lastLogTime, capped at LogPeriod
  lastTickIdle,     \* history: the last completed tick found no tracker
  notified,         \* data_cv.notify_one() was called by the last step
  pevt,             \* history: which producer step ran last
  velocity,         \* the local velocity of line 97, as the last sample left it
  rejectedAt,       \* history: the sample rejected in this or the previous tick
  \* ---- mailbox (shared_data, data_mutex, data_cv) ----
  shared_data,      \* main's shared_data, the single slot
  has_new,          \* "has new data": the reader holds an unconsumed wake-up
  taken,            \* what the reader's last take_latest returned
  lastPut,          \* history: the sample of the most recent put
  putsSinceTake,    \* history: puts since the last take (saturating)
  conflated,        \* history: puts the last take had to choose from
  mevt,             \* history: which mailbox operation ran last
  mutex,            \* main's data_mutex: "free", "producer" or "reader"
  wpc,              \* position of the producer inside one put (lines 120-126)
  rpc,              \* position of the reader: idle, locked, waiting
  \* ---- stream client (vive_node.cpp) ----
  cpc,              \* position of main/Client::start
  sock,             \* Client::sock: "open" (>= 0) or "closed" (-1)
  ok,               \* rclcpp::ok()
  wire,             \* tokens sent on the connection and not yet read
  jsonData,         \* Client::jsonData
  initialPose,      \* Client::initialPose, the reference frame
  triggerButtonPressed, \* Client::triggerButtonPressed
  pubs,             \* transforms published by the last client step
  telemetry,        \* controller_data messages published by the last step
  cevt,             \* history: which client or transport step ran last
  prevTrig,         \* history: trigger_button of the previous sample
  connAttempts,     \* history: connect attempts of this connection phase
  connFails,        \* history: failed attempts of this connection phase
  connSleeps,       \* history: backoff sleeps of this connection phase
  owed,             \* history: complete messages sent and not processed
  \* ---- calculateRelativePose on its own ----
  rpPc,             \* "off", "input" (arguments chosen) or "done" (applied)
  rpRef,            \* the argument initial
  rpCur,            \* the argument current
  rpOut             \* the value returned

producerVars ==
  <<ppc, devIdx, trackerDetected, local_data, first_run, prev_position,
    prevAge, sinceLog, lastTickIdle, notified, pevt, velocity, rejectedAt>>

lockVars ==
  <<mutex, wpc, rpc>>

mailboxVars ==
  <<shared_data, has_new, taken, lastPut, putsSinceTake, conflated, mevt,
    lockVars>>

clientVars ==
  <<cpc, sock, ok, wire, jsonData, initialPose, triggerButtonPressed, pubs,
    telemetry, cevt, prevTrig, connAttempts, connFails, connSleeps, owed>>

relVars ==
  <<rpPc, rpRef, rpCur, rpOut>>

vars ==
  <<producerVars, mailboxVars, clientVars, relVars>>

(* --------------------------- producer data ---------------------------- *)

\* positions a tracked device can report (cm)
Positions ==
  {<<x, y, z>> : x \in 0..MaxX, y \in {0, 4}, z \in {0, 3}}

\* an indeterminate value: prev_position before its first assignment
Indeterminate ==
  "indeterminate"

\* VRUtils::resetJsonData(local_data): the default "no tracker" sample
ResetData ==
  [time |-> "unset", pos |-> <<0, 0, 0>>]

\* lines 76-84: local_data filled from the device pose
DeviceSample(p) ==
  [time |-> "capture", pos |-> p]

Min(a, b) ==
  IF a < b THEN a ELSE b

\* lines 93-96: delta_distance squared
Dist2(p, q) ==
  (p[1] - q[1]) * (p[1] - q[1]) + (p[2] - q[2]) * (p[2] - q[2])
    + (p[3] - q[3]) * (p[3] - q[3])

\* line 97: float velocity = delta_distance / delta_time, by the kind of
\* value the IEEE division gives (d2 and dt stand for distance and time)
Divide(d2, dt) ==
  IF dt > 0 THEN "finite" ELSE IF d2 > 0 THEN "inf" ELSE "nan"

\* history value: no sample was rejected in this tick or the one before
NoReject ==
  [tick |-> "none", pos |-> <<0, 0, 0>>]

\* a faulty variant of TooFar: no distance is too far
TooFar_Never(d2) ==
  FALSE

\* a faulty variant of TooFar: a distance equal to the threshold is too far
TooFar_Inclusive(d2) ==
  d2 >= Threshold2

\* line 106: delta_distance > 0.05
TooFar(d2) ==
  d2 > Threshold2

(* ------------------------------ mailbox ------------------------------- *)

\* what take_latest returns when nothing is new
Empty ==
  [time |-> "empty", pos |-> <<0, 0, 0>>]

\* a faulty variant of PutSample: a sample already in the slot is kept
PutSample_KeepUnread(slot, local) ==
  IF slot.time = "put" THEN slot ELSE [local EXCEPT !.time = "put"]

\* lines 123-124: shared_data = local_data, then the time field re-stamped
PutSample(slot, local) ==
  [local EXCEPT !.time = "put"]

\* put seen as one step with the reader parked in its wait: the notify of
\* line 126 reaches it, so the reader has new data
MarkNew ==
  TRUE

\* lines 121-126: the critical section and the notify of one put
MailboxPut(local) ==
  /\ shared_data' = PutSample(shared_data, local)
  /\ has_new' = MarkNew
  /\ lastPut' = local
  /\ putsSinceTake' = Min(putsSinceTake + 1, MaxPuts)
  /\ mevt' = "put"
  /\ UNCHANGED <<taken, conflated, lockVars>>

\* the reader's take_latest: the newest unread sample, or empty
TakeLatest ==
  /\ taken' = IF has_new THEN shared_data ELSE Empty
  /\ has_new' = FALSE
  /\ conflated' = putsSinceTake
  /\ putsSinceTake' = 0
  /\ mevt' = "take"
  /\ UNCHANGED <<shared_data, lastPut, lockVars>>
  /\ UNCHANGED <<producerVars, clientVars, relVars>>

\* a put of any sample, the producer left aside
PutAny ==
  /\ \E p \in Positions : MailboxPut(DeviceSample(p))
  /\ UNCHANGED <<producerVars, clientVars, relVars>>

(* ------------------- the put, statement by statement ------------------ *)

\* a faulty variant of AcquiredBy: the mutex is not taken
AcquiredBy_None(who) ==
  "free"

\* line 121: std::lock_guard<std::mutex> lock(data_mutex), the new owner
AcquiredBy(who) ==
  who

\* lines 76-118: an accepted sample is in local_data and runVR is at line 120
PutBegin(p) ==
  /\ wpc = "idle"
  /\ local_data' = DeviceSample(p)
  /\ wpc' = "lock"
  /\ mevt' = "begin"
  /\ UNCHANGED <<ppc, devIdx, trackerDetected, first_run, prev_position,
                 prevAge, sinceLog, lastTickIdle, notified, pevt, velocity,
                 rejectedAt>>
  /\ UNCHANGED <<shared_data, has_new, taken, lastPut, putsSinceTake,
                 conflated, mutex, rpc>>
  /\ UNCHANGED <<clientVars, relVars>>

\* line 121: the lock_guard is constructed once the mutex is free
PutLock ==
  /\ wpc = "lock"
  /\ mutex = "free"
  /\ mutex' = AcquiredBy("producer")
  /\ wpc' = "copypos"
  /\ mevt' = "lock"
  /\ UNCHANGED <<shared_data, has_new, taken, lastPut, putsSinceTake,
                 conflated, rpc>>
  /\ UNCHANGED <<producerVars, clientVars, relVars>>

\* line 123: shared_data = local_data, the pose fields of the struct
PutCopyPose ==
  /\ wpc = "copypos"
  /\ shared_data' = [shared_data EXCEPT !.pos = local_data.pos]
  /\ wpc' = "copytime"
  /\ mevt' = "copypose"
  /\ UNCHANGED <<has_new, taken, lastPut, putsSinceTake, conflated, mutex,
                 rpc>>
  /\ UNCHANGED <<producerVars, clientVars, relVars>>

\* line 123: shared_data = local_data, the time field of the struct
PutCopyTime ==
  /\ wpc = "copytime"
  /\ shared_data' = [shared_data EXCEPT !.time = local_data.time]
  /\ wpc' = "stamp"
  /\ mevt' = "copytime"
  /\ UNCHANGED <<has_new, taken, lastPut, putsSinceTake, conflated, mutex,
                 rpc>>
  /\ UNCHANGED <<producerVars, clientVars, relVars>>

\* line 124: shared_data.time = Utils::getCurrentTimeWithMilliseconds()
PutStamp ==
  /\ wpc = "stamp"
  /\ shared_data' = [shared_data EXCEPT !.time = "put"]
  /\ wpc' = "unlock"
  /\ mevt' = "stamp"
  /\ UNCHANGED <<has_new, taken, lastPut, putsSinceTake, conflated, mutex,
                 rpc>>
  /\ UNCHANGED <<producerVars, clientVars, relVars>>

\* line 125: the block ends and the lock_guard releases the mutex
PutUnlock ==
  /\ wpc = "unlock"
  /\ mutex' = IF mutex = "producer" THEN "free" ELSE mutex
  /\ wpc' = "notify"
  /\ lastPut' = local_data
  /\ putsSinceTake' = Min(putsSinceTake + 1, MaxPuts)
  /\ mevt' = "put"
  /\ UNCHANGED <<shared_data, has_new, taken, conflated, rpc>>
  /\ UNCHANGED <<producerVars, clientVars, relVars>>

\* line 126: data_cv.notify_one() wakes the reader if it is waiting, and
\* leaves nothing behind if it is not
PutNotify ==
  /\ wpc = "notify"
  /\ has_new' = IF rpc = "waiting" THEN TRUE ELSE has_new
  /\ wpc' = "idle"
  /\ mevt' = "notify"
  /\ UNCHANGED <<shared_data, taken, lastPut, putsSinceTake, conflated,
                 mutex, rpc>>
  /\ UNCHANGED <<producerVars, clientVars, relVars>>

\* the reader takes data_mutex (std::unique_lock) before it looks at the slot
ReaderLock ==
  /\ rpc = "idle"
  /\ mutex = "free"
  /\ mutex' = "reader"
  /\ rpc' = "locked"
  /\ mevt' = "rlock"
  /\ UNCHANGED <<shared_data, has_new, taken, lastPut, putsSinceTake,
                 conflated, wpc>>
  /\ UNCHANGED <<producerVars, clientVars, relVars>>

\* under the mutex the reader finds nothing new and waits on data_cv, which
\* releases the mutex
ReaderWait ==
  /\ rpc = "locked"
  /\ ~has_new
  /\ mutex' = "free"
  /\ rpc' = "waiting"
  /\ mevt' = "wait"
  /\ UNCHANGED <<shared_data, has_new, taken, lastPut, putsSinceTake,
                 conflated, wpc>>
  /\ UNCHANGED <<producerVars, clientVars, relVars>>

\* the woken reader leaves the wait once it has the mutex again
ReaderWake ==
  /\ rpc = "waiting"
  /\ has_new
  /\ mutex = "free"
  /\ mutex' = "reader"
  /\ rpc' = "locked"
  /\ mevt' = "wake"
  /\ UNCHANGED <<shared_data, has_new, taken, lastPut, putsSinceTake,
                 conflated, wpc>>
  /\ UNCHANGED <<producerVars, clientVars, relVars>>

\* under the mutex the reader copies the slot, then releases the mutex and
\* goes to send the copy
ReaderTake ==
  /\ rpc = "locked"
  /\ has_new
  /\ taken' = shared_data
  /\ has_new' = FALSE
  /\ conflated' = putsSinceTake
  /\ putsSinceTake' = 0
  /\ mutex' = "free"
  /\ rpc' = "idle"
  /\ mevt' = "take"
  /\ UNCHANGED <<shared_data, lastPut, wpc>>
  /\ UNCHANGED <<producerVars, clientVars, relVars>>

(* --------------------------- producer loop ---------------------------- *)

\* ViveInput::ViveInput with initVR succeeding; main goes on to runVR
InitVROk ==
  /\ ppc = "construct"
  /\ ppc' = "poll"
  /\ pevt' = "init"
  /\ notified' = FALSE
  /\ UNCHANGED <<devIdx, trackerDetected, local_data, first_run,
                 prev_position, prevAge, sinceLog, lastTickIdle, velocity,
                 rejectedAt>>
  /\ UNCHANGED <<mailboxVars, clientVars, relVars>>

\* a faulty variant of InitVRFail: the failure is passed over and main
\* goes on to runVR
InitVRFail_Continues ==
  /\ ppc = "construct"
  /\ ppc' = "poll"
  /\ pevt' = "initfail"
  /\ notified' = FALSE
  /\ UNCHANGED <<devIdx, trackerDetected, local_data, first_run,
                 prev_position, prevAge, sinceLog, lastTickIdle, velocity,
                 rejectedAt>>
  /\ UNCHANGED <<mailboxVars, clientVars, relVars>>

\* ViveInput::ViveInput with initVR failing: the constructor throws
InitVRFail ==
  /\ ppc = "construct"
  /\ ppc' = "failed"
  /\ pevt' = "initfail"
  /\ notified' = FALSE
  /\ UNCHANGED <<devIdx, trackerDetected, local_data, first_run,
                 prev_position, prevAge, sinceLog, lastTickIdle, velocity,
                 rejectedAt>>
  /\ UNCHANGED <<mailboxVars, clientVars, relVars>>

\* lines 54-61: the head of one tick, up to the start of the device scan
LoopHead ==
  /\ ppc = "poll"
  /\ trackerDetected' = FALSE
  /\ local_data' = ResetData
  /\ devIdx' = 0
  /\ ppc' = "scan"
  /\ pevt' = "poll"
  /\ notified' = FALSE
  /\ velocity' = "none"
  /\ UNCHANGED <<first_run, prev_position, prevAge, sinceLog, lastTickIdle,
                 rejectedAt>>
  /\ UNCHANGED <<mailboxVars, clientVars, relVars>>

\* lines 61-65: device i is not a connected, valid, running generic tracker
SkipDevice ==
  /\ ppc = "scan"
  /\ devIdx < NumDevices
  /\ devIdx' = devIdx + 1
  /\ pevt' = "skip"
  /\ notified' = FALSE
  /\ UNCHANGED <<ppc, trackerDetected, local_data, first_run, prev_position,
                 prevAge, sinceLog, lastTickIdle, velocity, rejectedAt>>
  /\ UNCHANGED <<mailboxVars, clientVars, relVars>>

\* lines 62-127: device i is a qualifying tracker at position p
SampleDevice(p) ==
  /\ ppc = "scan"
  /\ devIdx < NumDevices
  /\ devIdx' = devIdx + 1
  /\ trackerDetected' = TRUE
  /\ local_data' = DeviceSample(p)
  /\ velocity' = IF first_run THEN "none"
                               ELSE Divide(Dist2(p, prev_position), prevAge)
  /\ IF ~first_run /\ TooFar(Dist2(p, prev_position))
       THEN \* line 108: continue
            /\ notified' = FALSE
            /\ rejectedAt' = [tick |-> "this", pos |-> p]
            /\ UNCHANGED <<first_run, prev_position, prevAge>>
            /\ UNCHANGED mailboxVars
       ELSE \* lines 113-126
            /\ rejectedAt' = rejectedAt
            /\ first_run' = FALSE
            /\ prev_position' = p
            /\ prevAge' = 0
            /\ MailboxPut(local_data')
            /\ notified' = TRUE
  /\ pevt' = "sample"
  /\ UNCHANGED <<ppc, sinceLog, lastTickIdle>>
  /\ UNCHANGED <<clientVars, relVars>>

\* lines 131-142: the end of the tick and its sleep
EndTick ==
  /\ ppc = "scan"
  /\ devIdx = NumDevices
  /\ IF ~trackerDetected
       THEN /\ IF sinceLog >= LogPeriod
                 THEN /\ first_run' = TRUE
                      /\ sinceLog' = Min(IdleSleep, LogPeriod)
                 ELSE /\ first_run' = first_run
                      /\ sinceLog' = Min(sinceLog + IdleSleep, LogPeriod)
            /\ prevAge' = Min(prevAge + IdleSleep, MaxAge)
       ELSE /\ first_run' = first_run
            /\ sinceLog' = Min(ActiveSleep, LogPeriod)
            /\ prevAge' = Min(prevAge + ActiveSleep, MaxAge)
  /\ lastTickIdle' = ~trackerDetected
  /\ rejectedAt' = IF rejectedAt.tick = "this"
                     THEN [rejectedAt EXCEPT !.tick = "prev"]
                     ELSE NoReject
  /\ ppc' = "poll"
  /\ pevt' = "endtick"
  /\ notified' = FALSE
  /\ UNCHANGED <<devIdx, trackerDetected, local_data, prev_position,
                 velocity>>
  /\ UNCHANGED <<mailboxVars, clientVars, relVars>>

(* ---------------------------- client data ----------------------------- *)

\* a default-constructed VRControllerData
DefaultData ==
  [pose_x |-> 0, pose_y |-> 0, pose_z |-> 0,
   pose_qx |-> 0, pose_qy |-> 0, pose_qz |-> 0, pose_qw |-> 0,
   menu_button |-> FALSE, trigger_button |-> FALSE]

\* the unit quaternions with whole or half components (the 24 Hurwitz
\* units), in halves: rotations by 0, 120 and 180 degrees
UnitQuats ==
  {q \in [w : -2..2, x : -2..2, y : -2..2, z : -2..2] :
     /\ q.w * q.w + q.x * q.x + q.y * q.y + q.z * q.z = 4
     /\ \/ \A c \in {q.w, q.x, q.y, q.z} : c \in {-2, 0, 2}
        \/ \A c \in {q.w, q.x, q.y, q.z} : c \in {-1, 1}}

\* the poses given to calculateRelativePose on its own: whole coordinates
\* and any of the unit quaternions
RelPoses ==
  {[DefaultData EXCEPT !.pose_x = 2 * px, !.pose_y = 2 * py,
                       !.pose_z = 2 * pz,
                       !.pose_qw = q.w, !.pose_qx = q.x,
                       !.pose_qy = q.y, !.pose_qz = q.z] :
     px \in 0..MaxRel, py \in 0..MaxRel, pz \in {0, 1}, q \in UnitQuats}

\* the samples a server sends: a pose with identity orientation and buttons
Samples ==
  {[pose_x |-> x, pose_y |-> 0, pose_z |-> 0,
    pose_qx |-> 0, pose_qy |-> 0, pose_qz |-> 0, pose_qw |-> 2,
    menu_button |-> m, trigger_button |-> t] :
     x \in {2 * c : c \in 0..MaxPoseX}, m \in BOOLEAN, t \in BOOLEAN}

\* Quaternion(w, x, y, z)
Quaternion(w, x, y, z) ==
  [w |-> w, x |-> x, y |-> y, z |-> z]

\* Quaternion::operator* (Hamilton product); a product of two numbers in
\* halves is in quarters and is brought back to halves
QMul(a, b) ==
  [w |-> (a.w * b.w - a.x * b.x - a.y * b.y - a.z * b.z) \div 2,
   x |-> (a.w * b.x + a.x * b.w + a.y * b.z - a.z * b.y) \div 2,
   y |-> (a.w * b.y - a.x * b.z + a.y * b.w + a.z * b.x) \div 2,
   z |-> (a.w * b.z + a.x * b.y - a.y * b.x + a.z * b.w) \div 2]

\* Quaternion::inverse: the conjugate over the squared norm (n is the
\* squared norm in quarters, so the quotient in halves is 4 * c / n)
QInverse(q) ==
  LET n == q.w * q.w + q.x * q.x + q.y * q.y + q.z * q.z
  IN  [w |-> (4 * q.w) \div n, x |-> (0 - 4 * q.x) \div n,
       y |-> (0 - 4 * q.y) \div n, z |-> (0 - 4 * q.z) \div n]

\* a faulty variant of calculateRelativePose: the position is rotated by
\* the initial quaternion, not by its inverse
calculateRelativePose_Forward(initial, current) ==
  LET rel_x == current.pose_x - initial.pose_x
      rel_y == current.pose_y - initial.pose_y
      rel_z == current.pose_z - initial.pose_z
      initialQuat == Quaternion(initial.pose_qw, initial.pose_qx,
                                initial.pose_qy, initial.pose_qz)
      currentQuat == Quaternion(current.pose_qw, current.pose_qx,
                                current.pose_qy, current.pose_qz)
      relativeQuat == QMul(QInverse(initialQuat), currentQuat)
      relPosQuat == Quaternion(0, rel_x, rel_y, rel_z)
      rotatedPosQuat ==
        QMul(QMul(initialQuat, relPosQuat), QInverse(initialQuat))
  IN  [DefaultData EXCEPT
         !.pose_x = rotatedPosQuat.x,
         !.pose_y = rotatedPosQuat.y,
         !.pose_z = rotatedPosQuat.z,
         !.pose_qx = relativeQuat.x,
         !.pose_qy = relativeQuat.y,
         !.pose_qz = relativeQuat.z,
         !.pose_qw = relativeQuat.w]

\* lines 81-112: Client::calculateRelativePose
calculateRelativePose(initial, current) ==
  LET rel_x == current.pose_x - initial.pose_x
      rel_y == current.pose_y - initial.pose_y
      rel_z == current.pose_z - initial.pose_z
      initialQuat == Quaternion(initial.pose_qw, initial.pose_qx,
                                initial.pose_qy, initial.pose_qz)
      currentQuat == Quaternion(current.pose_qw, current.pose_qx,
                                current.pose_qy, current.pose_qz)
      relativeQuat == QMul(QInverse(initialQuat), currentQuat)
      relPosQuat == Quaternion(0, rel_x, rel_y, rel_z)
      rotatedPosQuat ==
        QMul(QMul(QInverse(initialQuat), relPosQuat), initialQuat)
  IN  [DefaultData EXCEPT
         !.pose_x = rotatedPosQuat.x,
         !.pose_y = rotatedPosQuat.y,
         !.pose_z = rotatedPosQuat.z,
         !.pose_qx = relativeQuat.x,
         !.pose_qy = relativeQuat.y,
         !.pose_qz = relativeQuat.z,
         !.pose_qw = relativeQuat.w]

\* lines 55-79: the TransformStamped that publishTransform sends
publishTransform(pose, isRelative) ==
  [child_frame_id |-> IF isRelative THEN "vive_pose_rel" ELSE "vive_pose_abs",
   tx |-> 0 - pose.pose_z, ty |-> 0 - pose.pose_x, tz |-> pose.pose_y,
   rx |-> 0 - pose.pose_qz, ry |-> 0 - pose.pose_qx, rz |-> pose.pose_qy,
   rw |-> pose.pose_qw]

\* lines 134-172: the message that publishControllerData sends
publishControllerData(data, relData) ==
  [data |-> data, abs_pose |-> data, rel_pose |-> relData]

(* ------------------------------ the wire ------------------------------ *)

Open ==
  [k |-> "open", s |-> DefaultData]

Close ==
  [k |-> "close", s |-> DefaultData]

Body(s) ==
  [k |-> "body", s |-> s]

\* the fields of an object of which one is missing or wrongly typed
BadBody ==
  [k |-> "badbody", s |-> DefaultData]

\* text that is no part of an object
Junk ==
  [k |-> "junk", s |-> DefaultData]

\* the encoding of one sample: one complete object
ValidMsg(s) ==
  <<Open, Body(s), Close>>

\* a well-formed object that lacks a field or holds one of the wrong type
BadFieldMsg ==
  <<Open, BadBody, Close>>

\* malformed text
JunkMsg ==
  <<Junk>>

Messages ==
  {ValidMsg(s) : s \in Samples} \cup {BadFieldMsg, JunkMsg}

\* line 188: json::parse succeeds on exactly one complete object
ParseOk(text) ==
  /\ Len(text) = 3
  /\ text[1] = Open
  /\ text[2].k \in {"body", "badbody"}
  /\ text[3] = Close

\* lines 188-206: the outcome of parsing the text and reading its fields
Decode(text) ==
  IF ~ParseOk(text) THEN "parse_error"
  ELSE IF text[2].k = "body" THEN "sample"
  ELSE "type_error"

(* ------------------------ relative pose engine ------------------------ *)

\* a faulty variant of Latch: on the level of the trigger, not its edge
Latch_OnLevel(trigger, pressed) ==
  trigger

\* line 226: the trigger button was just pressed
Latch(trigger, pressed) ==
  trigger /\ ~pressed

\* a faulty variant of NextPressed: the flag is never released
NextPressed_NoRelease(trigger, pressed) ==
  trigger \/ pressed

\* lines 226-232: triggerButtonPressed after the trigger handling
NextPressed(trigger, pressed) ==
  IF trigger /\ ~pressed THEN TRUE
  ELSE IF ~trigger /\ pressed THEN FALSE
  ELSE pressed

\* a faulty variant of MenuReset: the menu button resets nothing
MenuReset_Never(ref, s) ==
  ref

\* a faulty variant of MenuReset: the menu button clears the initial pose
MenuReset_ToDefault(ref, s) ==
  IF s.menu_button THEN DefaultData ELSE ref

\* lines 246-248: the menu button resets the initial pose
MenuReset(ref, s) ==
  IF s.menu_button THEN s ELSE ref

\* a faulty variant of ProcessSample: the menu reset is applied before the
\* relative pose is computed
ProcessSample_MenuFirst(s) ==
  LET latched == IF Latch(s.trigger_button, triggerButtonPressed)
                   THEN s ELSE initialPose
      pressed == NextPressed(s.trigger_button, triggerButtonPressed)
      reset == MenuReset(latched, s)
      relativePose == IF pressed THEN calculateRelativePose(reset, s)
                      ELSE DefaultData
  IN  /\ jsonData' = s
      /\ triggerButtonPressed' = pressed
      /\ pubs' = IF pressed
                   THEN <<publishTransform(relativePose, TRUE),
                          publishTransform(s, FALSE)>>
                   ELSE <<publishTransform(s, FALSE)>>
      /\ initialPose' = reset
      /\ telemetry' = <<publishControllerData(s, relativePose)>>
      /\ prevTrig' = s.trigger_button

\* lines 189-251: one decoded sample stored and processed
ProcessSample(s) ==
  LET latched == IF Latch(s.trigger_button, triggerButtonPressed)
                   THEN s ELSE initialPose
      pressed == NextPressed(s.trigger_button, triggerButtonPressed)
      relativePose == IF pressed THEN calculateRelativePose(latched, s)
                      ELSE DefaultData
  IN  /\ jsonData' = s
      /\ triggerButtonPressed' = pressed
      /\ pubs' = IF pressed
                   THEN <<publishTransform(relativePose, TRUE),
                          publishTransform(s, FALSE)>>
                   ELSE <<publishTransform(s, FALSE)>>
      /\ initialPose' = MenuReset(latched, s)
      /\ telemetry' = <<publishControllerData(s, relativePose)>>
      /\ prevTrig' = s.trigger_button

\* a call calculateRelativePose(initial, current) outside of start
ApplyRelativePose ==
  /\ rpPc = "input"
  /\ rpOut' = calculateRelativePose(rpRef, rpCur)
  /\ rpPc' = "done"
  /\ UNCHANGED <<rpRef, rpCur>>
  /\ UNCHANGED <<producerVars, mailboxVars, clientVars>>

(* --------------------------- stream client ---------------------------- *)

\* a faulty variant of connectToServer: a new connection starts with the
\* trigger latch released
connectToServer_DropsLatch(r, onFail) ==
  /\ r \in {"nosocket", "refused", "connected"}
  /\ r = "refused" => connFails < MaxFails
  /\ connAttempts' = connAttempts + 1
  /\ connFails' = IF r = "refused" THEN connFails + 1 ELSE connFails
  /\ sock' = IF r = "connected" THEN "open" ELSE "closed"
  /\ cpc' = CASE r = "nosocket" -> "exited"
              [] r = "refused" -> onFail
              [] r = "connected" -> "loop"
  /\ cevt' = r
  /\ wire' = <<>>
  /\ owed' = 0
  /\ pubs' = <<>>
  /\ telemetry' = <<>>
  /\ triggerButtonPressed' = IF r = "connected" THEN FALSE
                                                ELSE triggerButtonPressed
  /\ UNCHANGED <<ok, jsonData, initialPose, prevTrig, connSleeps>>

\* lines 31-43: Client::connectToServer, r the outcome of socket and connect
connectToServer(r, onFail) ==
  /\ r \in {"nosocket", "refused", "connected"}
  /\ r = "refused" => connFails < MaxFails
  /\ connAttempts' = connAttempts + 1
  /\ connFails' = IF r = "refused" THEN connFails + 1 ELSE connFails
  /\ sock' = IF r = "connected" THEN "open" ELSE "closed"
  /\ cpc' = CASE r = "nosocket" -> "exited"
              [] r = "refused" -> onFail
              [] r = "connected" -> "loop"
  /\ cevt' = r
  /\ wire' = <<>>
  /\ owed' = 0
  /\ pubs' = <<>>
  /\ telemetry' = <<>>
  /\ UNCHANGED <<ok, jsonData, initialPose, triggerButtonPressed, prevTrig,
                 connSleeps>>

\* lines 175-179: one pass of the connect loop of start
StartConnect ==
  /\ cpc = "connect"
  /\ \E r \in {"nosocket", "refused", "connected"} :
       connectToServer(r, "connect")
  /\ UNCHANGED <<producerVars, mailboxVars, relVars>>

\* lines 182-256: a read of n > 0 bytes, parsed, decoded and processed
ReadData(n) ==
  /\ cpc = "loop"
  /\ ok
  /\ n \in 1..Len(wire)
  /\ LET text == SubSeq(wire, 1, n)
         outcome == Decode(text)
     IN  /\ wire' = SubSeq(wire, n + 1, Len(wire))
         /\ cevt' = outcome
         /\ CASE outcome = "sample" ->
                   /\ ProcessSample(text[2].s)
                   /\ owed' = IF owed > 0 THEN owed - 1 ELSE 0
                   /\ cpc' = "loop"
              [] outcome = "parse_error" ->
                   \* lines 253-255: logged, continue
                   /\ pubs' = <<>>
                   /\ telemetry' = <<>>
                   /\ cpc' = "loop"
                   /\ UNCHANGED <<jsonData, initialPose, triggerButtonPressed,
                                  prevTrig, owed>>
              [] outcome = "type_error" ->
                   \* json::type_error is not caught: the process terminates
                   /\ pubs' = <<>>
                   /\ telemetry' = <<>>
                   /\ cpc' = "terminated"
                   /\ UNCHANGED <<jsonData, initialPose, triggerButtonPressed,
                                  prevTrig, owed>>
  /\ connAttempts' = 0
  /\ connFails' = 0
  /\ connSleeps' = 0
  /\ UNCHANGED <<sock, ok>>
  /\ UNCHANGED <<producerVars, mailboxVars, relVars>>

\* lines 257-259 and 46-47: read returns 0, reconnect closes the socket
ReadEOF ==
  /\ cpc = "loop"
  /\ ok
  /\ wire = <<>>
  /\ sock' = "closed"
  /\ cpc' = "backoff"
  /\ cevt' = "eof"
  /\ pubs' = <<>>
  /\ telemetry' = <<>>
  /\ connAttempts' = 0
  /\ connFails' = 0
  /\ connSleeps' = 0
  /\ owed' = 0
  /\ UNCHANGED <<ok, wire, jsonData, initialPose, triggerButtonPressed,
                 prevTrig>>
  /\ UNCHANGED <<producerVars, mailboxVars, relVars>>

\* lines 260-263: read returns a negative value: break
ReadError ==
  /\ cpc = "loop"
  /\ ok
  /\ cpc' = "returned"
  /\ cevt' = "read_error"
  /\ pubs' = <<>>
  /\ telemetry' = <<>>
  /\ connAttempts' = 0
  /\ connFails' = 0
  /\ connSleeps' = 0
  /\ UNCHANGED <<sock, ok, wire, jsonData, initialPose, triggerButtonPressed,
                 prevTrig, owed>>
  /\ UNCHANGED <<producerVars, mailboxVars, relVars>>

\* line 182: rclcpp::ok() is false, the loop ends and start returns
LoopExit ==
  /\ cpc = "loop"
  /\ ~ok
  /\ cpc' = "returned"
  /\ cevt' = "loop_exit"
  /\ pubs' = <<>>
  /\ telemetry' = <<>>
  /\ UNCHANGED <<sock, ok, wire, jsonData, initialPose, triggerButtonPressed,
                 prevTrig, connAttempts, connFails, connSleeps, owed>>
  /\ UNCHANGED <<producerVars, mailboxVars, relVars>>

\* line 49: the sleep of one second before a reconnect attempt
ReconnectSleep ==
  /\ cpc = "backoff"
  /\ cpc' = "reconnect"
  /\ connSleeps' = connSleeps + 1
  /\ cevt' = "sleep"
  /\ pubs' = <<>>
  /\ telemetry' = <<>>
  /\ UNCHANGED <<sock, ok, wire, jsonData, initialPose, triggerButtonPressed,
                 prevTrig, connAttempts, connFails, owed>>
  /\ UNCHANGED <<producerVars, mailboxVars, relVars>>

\* lines 48-52: the connect attempt of one pass of the reconnect loop
ReconnectAttempt ==
  /\ cpc = "reconnect"
  /\ \E r \in {"nosocket", "refused", "connected"} :
       connectToServer(r, "backoff")
  /\ UNCHANGED <<producerVars, mailboxVars, relVars>>

\* the server writes one message on the connection
ServerSend(msg) ==
  /\ cpc = "loop"
  /\ sock = "open"
  /\ Len(wire) + Len(msg) <= MaxWire
  /\ wire' = wire \o msg
  /\ owed' = IF Decode(msg) = "sample" THEN Min(owed + 1, MaxOwed) ELSE owed
  /\ cevt' = "send"
  /\ UNCHANGED <<cpc, sock, ok, jsonData, initialPose, triggerButtonPressed,
                 pubs, telemetry, prevTrig, connAttempts, connFails,
                 connSleeps>>
  /\ UNCHANGED <<producerVars, mailboxVars, relVars>>

\* the process is told to stop
Shutdown ==
  /\ ok
  /\ cpc \in {"connect", "loop", "backoff", "reconnect"}
  /\ ok' = FALSE
  /\ cevt' = "shutdown"
  /\ UNCHANGED <<cpc, sock, wire, jsonData, initialPose, triggerButtonPressed,
                 pubs, telemetry, prevTrig, connAttempts, connFails,
                 connSleeps, owed>>
  /\ UNCHANGED <<producerVars, mailboxVars, relVars>>

(* --------------------------- specifications --------------------------- *)

InitProducer ==
  /\ ppc = "construct"
  /\ devIdx = 0
  /\ trackerDetected = FALSE
  /\ local_data = ResetData
  /\ first_run = TRUE
  /\ prev_position = Indeterminate
  /\ prevAge = MaxAge
  /\ sinceLog = 0
  /\ lastTickIdle = FALSE
  /\ notified = FALSE
  /\ pevt = "none"
  /\ velocity = "none"
  /\ rejectedAt = NoReject

InitMailbox ==
  /\ shared_data = ResetData
  /\ has_new = FALSE
  /\ taken = Empty
  /\ lastPut = ResetData
  /\ putsSinceTake = 0
  /\ conflated = 0
  /\ mevt = "none"
  /\ mutex = "free"
  /\ wpc = "idle"
  /\ rpc = "idle"

InitClient ==
  /\ cpc = "connect"
  /\ sock = "closed"
  /\ ok = TRUE
  /\ wire = <<>>
  /\ jsonData = DefaultData
  /\ initialPose = DefaultData
  /\ triggerButtonPressed = FALSE
  /\ pubs = <<>>
  /\ telemetry = <<>>
  /\ cevt = "none"
  /\ prevTrig = FALSE
  /\ connAttempts = 0
  /\ connFails = 0
  /\ connSleeps = 0
  /\ owed = 0

InitRel ==
  /\ rpPc = "off"
  /\ rpRef = DefaultData
  /\ rpCur = DefaultData
  /\ rpOut = DefaultData

Init ==
  /\ InitProducer
  /\ InitMailbox
  /\ InitClient
  /\ InitRel

\* calculateRelativePose about to be called with any two poses
InitRelPose ==
  /\ InitProducer
  /\ InitMailbox
  /\ InitClient
  /\ rpPc = "input"
  /\ rpRef \in RelPoses
  /\ rpCur \in RelPoses
  /\ rpOut = DefaultData

NextProducer ==
  \/ InitVROk
  \/ InitVRFail
  \/ LoopHead
  \/ SkipDevice
  \/ \E p \in Positions : SampleDevice(p)
  \/ EndTick

NextMailbox ==
  \/ PutAny
  \/ TakeLatest

NextClient ==
  \/ StartConnect
  \/ \E n \in 1..MaxWire : ReadData(n)
  \/ ReadEOF
  \/ ReadError
  \/ LoopExit
  \/ ReconnectSleep
  \/ ReconnectAttempt
  \/ \E msg \in Messages : ServerSend(msg)
  \/ Shutdown

\* the producer process: main and ViveInput::runVR
SpecProducer ==
  Init /\ [][NextProducer]_vars

\* the mailbox operations on their own, puts drawn from the sample set
SpecMailbox ==
  Init /\ [][NextMailbox]_vars

\* the client process: main and Client::start, with its server and transport
SpecClient ==
  Init /\ [][NextClient]_vars

NextHandoff ==
  \/ \E p \in Positions : PutBegin(p)
  \/ PutLock
  \/ PutCopyPose
  \/ PutCopyTime
  \/ PutStamp
  \/ PutUnlock
  \/ PutNotify
  \/ ReaderLock
  \/ ReaderWait
  \/ ReaderWake
  \/ ReaderTake

NextRelPose ==
  ApplyRelativePose

\* calculateRelativePose as a pure function of its two arguments
SpecRelPose ==
  InitRelPose /\ [][NextRelPose]_vars

\* the producer's put and the reader, interleaved statement by statement
SpecHandoff ==
  Init /\ [][NextHandoff]_vars

(* ------------------------------- claims ------------------------------- *)

\* C1: once the filter holds a baseline (first_run is false), a sampled
\* position is accepted (stored as the new baseline, put in the slot, the
\* reader notified) exactly when its squared distance from prev_position is
\* at most the threshold; otherwise it is rejected and prev_position,
\* prev_time, first_run and the slot are left as they were.
C1_FilterThreshold ==
  [][(pevt' = "sample" /\ ~first_run) =>
       IF Dist2(local_data'.pos, prev_position) <= Threshold2
         THEN /\ notified'
              /\ prev_position' = local_data'.pos
              /\ prevAge' = 0
              /\ shared_data'.pos = local_data'.pos
              /\ ~first_run'
         ELSE /\ ~notified'
              /\ prev_position' = prev_position
              /\ prevAge' = prevAge
              /\ shared_data' = shared_data
              /\ ~first_run']_vars

\* C1 witness: a sample farther than the threshold was just rejected and the
\* baseline it was compared with is still stored.
C1_Witness ==
  /\ pevt = "sample"
  /\ ~notified
  /\ ~first_run
  /\ prev_position \in Positions
  /\ Dist2(local_data.pos, prev_position) > Threshold2
  /\ shared_data.pos = prev_position

\* C2 (as claimed): after a tick that found no qualifying device, the first
\* sample of the next tick that finds a tracker is accepted and put in the
\* slot, whatever its distance from the baseline.
C2_GapAlwaysResets ==
  [][(pevt' = "sample" /\ lastTickIdle /\ ~trackerDetected) => notified']_vars

\* C3: for a decoded sample with menu_button false, the reference frame
\* becomes that sample when its trigger_button is true and the previous
\* sample's was false (false before the first sample), and is left unchanged
\* on every other sample.
C3_EdgeLatch ==
  [][(cevt' = "sample" /\ ~jsonData'.menu_button) =>
       initialPose' = IF jsonData'.trigger_button /\ ~prevTrig
                        THEN jsonData'
                        ELSE initialPose]_vars

\* C3 witness: a second sample in a row with the trigger held and another
\* pose was processed, and the reference frame is still the earlier sample.
C3_Witness ==
  /\ cevt = "sample"
  /\ jsonData.trigger_button
  /\ ~jsonData.menu_button
  /\ triggerButtonPressed
  /\ initialPose.trigger_button
  /\ ~initialPose.menu_button
  /\ initialPose.pose_x # jsonData.pose_x

\* C4: a decoded sample publishes the absolute transform of its pose exactly
\* once, and one relative transform when its trigger_button is true, none
\* when it is false.
C4_PublishPerSample ==
  cevt = "sample" =>
    /\ Cardinality({i \in DOMAIN pubs :
                      pubs[i].child_frame_id = "vive_pose_abs"}) = 1
    /\ \E i \in DOMAIN pubs : pubs[i] = publishTransform(jsonData, FALSE)
    /\ Cardinality({i \in DOMAIN pubs :
                      pubs[i].child_frame_id = "vive_pose_rel"})
         = IF jsonData.trigger_button THEN 1 ELSE 0

\* C4 witness: a sample with the trigger released, after one with the trigger
\* pressed, published the absolute transform alone.
C4_Witness ==
  /\ cevt = "sample"
  /\ ~jsonData.trigger_button
  /\ initialPose.trigger_button
  /\ pubs = <<publishTransform(jsonData, FALSE)>>

\* C5: when a decoded sample with menu_button true has been processed, the
\* reference frame is that sample, whatever its trigger_button.
C5_MenuResets ==
  (cevt = "sample" /\ jsonData.menu_button) => initialPose = jsonData

\* C5 witness: a sample with menu_button true and the trigger released, so
\* with no trigger edge, became the reference frame.
C5_Witness ==
  /\ cevt = "sample"
  /\ jsonData.menu_button
  /\ ~jsonData.trigger_button
  /\ ~triggerButtonPressed
  /\ initialPose = jsonData

\* C6 (as claimed): after a read that returned end of file or an error the
\* client has closed the socket and is in the reconnect loop.
C6_ReadFailureReconnects ==
  cevt \in {"eof", "read_error"} => (cpc = "backoff" /\ sock = "closed")

\* C7 (as claimed): when a connect attempt has just succeeded after N failed
\* ones, N + 1 attempts were made and a backoff sleep separated each pair of
\* consecutive attempts, in start as in reconnect.
C7_RetryWithBackoff ==
  cevt = "connected" =>
    (connAttempts = connFails + 1 /\ connSleeps >= connFails)

\* C8 (as claimed): after a read whose text could not be decoded (malformed
\* text, or an object with a missing or wrongly typed field) the client is
\* still connected and back at the head of its read loop.
C8_DecodeFailureRecoverable ==
  cevt \in {"parse_error", "type_error"} => (cpc = "loop" /\ sock = "open")

\* C9 (as claimed): once every token sent on the connection has been read,
\* every complete message sent has been decoded and processed, wherever the
\* read boundaries fell.
C9_NoMessageLost ==
  (cpc = "loop" /\ wire = <<>>) => owed = 0

C11_NoTornRead ==
  /\ [](mutex = "reader" =>
          \/ shared_data = ResetData
          \/ shared_data = PutSample(shared_data, lastPut))
  /\ [][shared_data' # shared_data =>
          mutex = "producer" /\ mutex' = "producer"]_vars

\* the reader holds the mutex over a completed put while the producer,
\* with another sample in hand, is held up at its lock
C11_Witness ==
  /\ mutex = "reader"
  /\ rpc = "locked"
  /\ wpc = "lock"
  /\ shared_data.time = "put"
  /\ local_data.pos # shared_data.pos

\* C12: the reader is never blocked in its wait, without a wake-up, while a
\* completed put that it has not taken is in the slot.
C12_NoMissedWake ==
  ~(rpc = "waiting" /\ ~has_new /\ wpc = "idle" /\ putsSinceTake > 0)

\* C13: a rejection costs one tick only: when a sample was rejected in the
\* previous tick and the tracker, still detected, reports the same position
\* again, that sample is accepted and put in the slot.
C13_RejectionLosesOneTick ==
  [][(pevt' = "sample" /\ rejectedAt.tick = "prev"
        /\ local_data'.pos = rejectedAt.pos)
       => notified']_vars

\* C15: when initVR fails the constructor throws and main stops: the process
\* takes no further step, it has polled nothing and the slot was never
\* written.  Once runVR runs, a tick that finds no tracker ends like any
\* other: the loop goes back to polling, in the no-tracker state.
C15_InitFatalGapNot ==
  /\ [](ppc = "failed" =>
          /\ pevt = "initfail"
          /\ shared_data = ResetData
          /\ lastPut = ResetData
          /\ ~has_new)
  /\ [][/\ pevt' = "initfail" => ppc' = "failed"
        /\ ppc # "failed"
        /\ (pevt' = "endtick" /\ ~trackerDetected)
             => (ppc' = "poll" /\ lastTickIdle')]_vars

\* the loop is back at its poll after a tick without tracker, with an
\* earlier sample still in the slot
C15_Witness ==
  /\ ppc = "poll"
  /\ pevt = "endtick"
  /\ lastTickIdle
  /\ shared_data.time = "put"

\* C16: a rejected sample is silent: the step that rejects (a baseline is
\* held and the sample lies farther than the threshold from it) leaves the
\* slot and everything else of the mailbox as it was, does not notify, keeps
\* the baseline, and the device scan goes on.
C16_RejectionSilent ==
  [][(pevt' = "sample" /\ ~first_run
        /\ Dist2(local_data'.pos, prev_position) > Threshold2)
       => /\ UNCHANGED mailboxVars
          /\ ~notified'
          /\ UNCHANGED <<first_run, prev_position>>
          /\ ppc' = "scan"
          /\ devIdx' = devIdx + 1]_vars

\* a sample has just been rejected while the slot holds the baseline sample
C16_Witness ==
  /\ pevt = "sample"
  /\ rejectedAt.tick = "this"
  /\ rejectedAt.pos = local_data.pos
  /\ ~notified
  /\ shared_data = PutSample(shared_data, DeviceSample(prev_position))

\* C17: a sample taken with no time elapsed since the baseline (dt = 0; the
\* steady clock never runs backwards) is accepted, and no velocity is
\* computed for it.
C17_ZeroDtAccepted ==
  [][(pevt' = "sample" /\ ~first_run /\ prevAge = 0)
       => (velocity' = "none" /\ notified')]_vars

\* C18: whenever triggerButtonPressed is true, initialPose is a sample that
\* was received and decoded, never the default-constructed value; so every
\* relative transform is computed against a reference taken from a sample.
C18_ReferenceFromSample ==
  triggerButtonPressed => (initialPose \in Samples /\ initialPose # DefaultData)

\* a relative transform has just been published against a latched sample
C18_Witness ==
  /\ cevt = "sample"
  /\ triggerButtonPressed
  /\ Len(pubs) = 2
  /\ pubs[1].child_frame_id = "vive_pose_rel"
  /\ initialPose \in Samples

\* C19: a message that fails to parse, the end of the connection, and the
\* sleeps and connect attempts of the reconnect that follows leave
\* initialPose, triggerButtonPressed and the last decoded sample as they
\* were, and publish neither a transform nor telemetry.
C19_EngineStateSurvives ==
  [][cevt' \in {"parse_error", "eof", "sleep", "refused", "connected"}
       => /\ UNCHANGED <<initialPose, triggerButtonPressed, jsonData>>
          /\ pubs' = <<>>
          /\ telemetry' = <<>>]_vars

\* a connection was just re-established with the trigger latch still held
C19_Witness ==
  /\ cevt = "connected"
  /\ sock = "open"
  /\ triggerButtonPressed
  /\ initialPose \in Samples
  /\ jsonData.trigger_button

\* C20: within one sample the trigger latch comes first, the relative
\* transform second and the menu reset last: with the trigger already held
\* the relative transform is computed against the reference held before the
\* sample, even when the sample's menu button then replaces the reference;
\* on the sample that presses the trigger it is computed against that
\* sample itself.
C20_LatchPublishReset ==
  [][cevt' = "sample" =>
       LET s == jsonData'
       IN  /\ (s.trigger_button /\ triggerButtonPressed) =>
                /\ pubs'[1] = publishTransform(
                                calculateRelativePose(initialPose, s), TRUE)
                /\ initialPose' = IF s.menu_button THEN s ELSE initialPose
           /\ (s.trigger_button /\ ~triggerButtonPressed) =>
                /\ pubs'[1] = publishTransform(
                                calculateRelativePose(s, s), TRUE)
                /\ initialPose' = s]_vars

\* a sample with menu and trigger set was published with a non-zero
\* relative translation, and is now itself the reference
C20_Witness ==
  /\ cevt = "sample"
  /\ jsonData.menu_button
  /\ jsonData.trigger_button
  /\ Len(pubs) = 2
  /\ pubs[1].ty # 0
  /\ initialPose = jsonData

\* C14: the value rel returned by calculateRelativePose(ref, cur), with
\* orientations q and positions p, is the pose of cur in the frame of ref:
\* q_ref * q_rel = q_cur and q_ref * (0, p_rel) = (0, p_cur - p_ref) * q_ref,
\* that is q_rel = inverse(q_ref) * q_cur and
\* (0, p_rel) = inverse(q_ref) * (0, p_cur - p_ref) * q_ref.  For cur = ref
\* the position is zero and the orientation the identity; for an identity
\* q_ref the position is p_cur - p_ref and the orientation q_cur.
C14_RelativePose ==
  rpPc = "done" =>
    LET q_ref == Quaternion(rpRef.pose_qw, rpRef.pose_qx, rpRef.pose_qy,
                            rpRef.pose_qz)
        q_cur == Quaternion(rpCur.pose_qw, rpCur.pose_qx, rpCur.pose_qy,
                            rpCur.pose_qz)
        q_rel == Quaternion(rpOut.pose_qw, rpOut.pose_qx, rpOut.pose_qy,
                            rpOut.pose_qz)
        p_rel == Quaternion(0, rpOut.pose_x, rpOut.pose_y, rpOut.pose_z)
        delta == Quaternion(0, rpCur.pose_x - rpRef.pose_x,
                            rpCur.pose_y - rpRef.pose_y,
                            rpCur.pose_z - rpRef.pose_z)
        identity == Quaternion(2, 0, 0, 0)
        zero == Quaternion(0, 0, 0, 0)
    IN  /\ QMul(q_ref, q_rel) = q_cur
        /\ QMul(q_ref, p_rel) = QMul(delta, q_ref)
        /\ rpCur = rpRef => (p_rel = zero /\ q_rel = identity)
        /\ q_ref = identity => (p_rel = delta /\ q_rel = q_cur)

\* the function was applied to a reference turned by 120 degrees and a
\* current pose displaced along x only: the displacement comes out along
\* another axis
C14_Witness ==
  /\ rpPc = "done"
  /\ rpRef.pose_qw = 1
  /\ rpCur.pose_x # rpRef.pose_x
  /\ rpCur.pose_y = rpRef.pose_y
  /\ rpCur.pose_z = rpRef.pose_z
  /\ rpOut.pose_x = 0

====
